---------------------------- MODULE Spec2Model ----------------------------
(***************************************************************************)
(* Model of rust-wasm/src/lib.rs: the email validator                      *)
(* parse_and_validate_email and the domain scorer score_domain.            *)
(*                                                                         *)
(* A Rust &str is modelled as the sequence of its Unicode code points      *)
(* (integers); str::len() is the number of bytes of its UTF-8 encoding.    *)
(* Option<T> is a sequence of length 0 (None) or 1 (Some).                 *)
(* Result<T, E> is a record [tag |-> "Ok" | "Err", value |-> ...].         *)
(***************************************************************************)
EXTENDS Integers, Sequences, FiniteSets, TLC

\* ------------------------------------------------------------------------
\* Program constants
\* ------------------------------------------------------------------------

\* lib.rs:122, the bound of `email.len() > 320`
MAX_EMAIL_LEN == 320

\* lib.rs:151, the separator of `email.split('@')`
CH_AT == 64

\* lib.rs:163, the character of `local_part.contains("..")`
CH_DOT == 46

\* ------------------------------------------------------------------------
\* Strings
\* ------------------------------------------------------------------------

None == << >>
Some(x) == << x >>

\* Bytes of the UTF-8 encoding of one code point (what str::len() adds up).
Utf8Width(c) ==
  IF c < 128 THEN 1
  ELSE IF c < 2048 THEN 2
  ELSE IF c < 65536 THEN 3
  ELSE 4

\* The bytes of s[lo..hi], summed by halves (the recursion stays shallow on
\* long strings).
RECURSIVE Utf8Bytes(_, _, _)
Utf8Bytes(s, lo, hi) ==
  IF lo > hi THEN 0
  ELSE IF lo = hi THEN Utf8Width(s[lo])
  ELSE LET mid == (lo + hi) \div 2
       IN  Utf8Bytes(s, lo, mid) + Utf8Bytes(s, mid + 1, hi)

\* str::len(): the length in bytes.
StrLen(s) == Utf8Bytes(s, 1, Len(s))

\* str::is_empty()
IsEmpty(s) == StrLen(s) = 0

\* The simple lowercase mappings beyond ASCII, as runs <<first, last, step,
\* offset>>: every step-th code point from first to last maps to itself plus
\* offset.  Unicode 17.0.
LOWERCASE_RUNS ==
  << <<192, 214, 1, 32>>, <<216, 222, 1, 32>>, <<256, 302, 2, 1>>,
     <<306, 310, 2, 1>>, <<313, 327, 2, 1>>, <<330, 374, 2, 1>>,
     <<376, 376, 1, -121>>, <<377, 381, 2, 1>>, <<385, 385, 1, 210>>,
     <<386, 388, 2, 1>>, <<390, 390, 1, 206>>, <<391, 391, 1, 1>>,
     <<393, 394, 1, 205>>, <<395, 395, 1, 1>>, <<398, 398, 1, 79>>,
     <<399, 399, 1, 202>>, <<400, 400, 1, 203>>, <<401, 401, 1, 1>>,
     <<403, 403, 1, 205>>, <<404, 404, 1, 207>>, <<406, 406, 1, 211>>,
     <<407, 407, 1, 209>>, <<408, 408, 1, 1>>, <<412, 412, 1, 211>>,
     <<413, 413, 1, 213>>, <<415, 415, 1, 214>>, <<416, 420, 2, 1>>,
     <<422, 422, 1, 218>>, <<423, 423, 1, 1>>, <<425, 425, 1, 218>>,
     <<428, 428, 1, 1>>, <<430, 430, 1, 218>>, <<431, 431, 1, 1>>,
     <<433, 434, 1, 217>>, <<435, 437, 2, 1>>, <<439, 439, 1, 219>>,
     <<440, 440, 1, 1>>, <<444, 444, 1, 1>>, <<452, 452, 1, 2>>,
     <<453, 453, 1, 1>>, <<455, 455, 1, 2>>, <<456, 456, 1, 1>>,
     <<458, 458, 1, 2>>, <<459, 475, 2, 1>>, <<478, 494, 2, 1>>,
     <<497, 497, 1, 2>>, <<498, 500, 2, 1>>, <<502, 502, 1, -97>>,
     <<503, 503, 1, -56>>, <<504, 542, 2, 1>>, <<544, 544, 1, -130>>,
     <<546, 562, 2, 1>>, <<570, 570, 1, 10795>>, <<571, 571, 1, 1>>,
     <<573, 573, 1, -163>>, <<574, 574, 1, 10792>>, <<577, 577, 1, 1>>,
     <<579, 579, 1, -195>>, <<580, 580, 1, 69>>, <<581, 581, 1, 71>>,
     <<582, 590, 2, 1>>, <<880, 882, 2, 1>>, <<886, 886, 1, 1>>,
     <<895, 895, 1, 116>>, <<902, 902, 1, 38>>, <<904, 906, 1, 37>>,
     <<908, 908, 1, 64>>, <<910, 911, 1, 63>>, <<913, 929, 1, 32>>,
     <<931, 939, 1, 32>>, <<975, 975, 1, 8>>, <<984, 1006, 2, 1>>,
     <<1012, 1012, 1, -60>>, <<1015, 1015, 1, 1>>, <<1017, 1017, 1, -7>>,
     <<1018, 1018, 1, 1>>, <<1021, 1023, 1, -130>>, <<1024, 1039, 1, 80>>,
     <<1040, 1071, 1, 32>>, <<1120, 1152, 2, 1>>, <<1162, 1214, 2, 1>>,
     <<1216, 1216, 1, 15>>, <<1217, 1229, 2, 1>>, <<1232, 1326, 2, 1>>,
     <<1329, 1366, 1, 48>>, <<4256, 4293, 1, 7264>>,
     <<4295, 4295, 1, 7264>>, <<4301, 4301, 1, 7264>>,
     <<5024, 5103, 1, 38864>>, <<5104, 5109, 1, 8>>, <<7305, 7305, 1, 1>>,
     <<7312, 7354, 1, -3008>>, <<7357, 7359, 1, -3008>>,
     <<7680, 7828, 2, 1>>, <<7838, 7838, 1, -7615>>, <<7840, 7934, 2, 1>>,
     <<7944, 7951, 1, -8>>, <<7960, 7965, 1, -8>>, <<7976, 7983, 1, -8>>,
     <<7992, 7999, 1, -8>>, <<8008, 8013, 1, -8>>, <<8025, 8031, 2, -8>>,
     <<8040, 8047, 1, -8>>, <<8072, 8079, 1, -8>>, <<8088, 8095, 1, -8>>,
     <<8104, 8111, 1, -8>>, <<8120, 8121, 1, -8>>, <<8122, 8123, 1, -74>>,
     <<8124, 8124, 1, -9>>, <<8136, 8139, 1, -86>>, <<8140, 8140, 1, -9>>,
     <<8152, 8153, 1, -8>>, <<8154, 8155, 1, -100>>, <<8168, 8169, 1, -8>>,
     <<8170, 8171, 1, -112>>, <<8172, 8172, 1, -7>>,
     <<8184, 8185, 1, -128>>, <<8186, 8187, 1, -126>>,
     <<8188, 8188, 1, -9>>, <<8486, 8486, 1, -7517>>,
     <<8490, 8490, 1, -8383>>, <<8491, 8491, 1, -8262>>,
     <<8498, 8498, 1, 28>>, <<8544, 8559, 1, 16>>, <<8579, 8579, 1, 1>>,
     <<9398, 9423, 1, 26>>, <<11264, 11311, 1, 48>>,
     <<11360, 11360, 1, 1>>, <<11362, 11362, 1, -10743>>,
     <<11363, 11363, 1, -3814>>, <<11364, 11364, 1, -10727>>,
     <<11367, 11371, 2, 1>>, <<11373, 11373, 1, -10780>>,
     <<11374, 11374, 1, -10749>>, <<11375, 11375, 1, -10783>>,
     <<11376, 11376, 1, -10782>>, <<11378, 11378, 1, 1>>,
     <<11381, 11381, 1, 1>>, <<11390, 11391, 1, -10815>>,
     <<11392, 11490, 2, 1>>, <<11499, 11501, 2, 1>>,
     <<11506, 11506, 1, 1>>, <<42560, 42604, 2, 1>>,
     <<42624, 42650, 2, 1>>, <<42786, 42798, 2, 1>>,
     <<42802, 42862, 2, 1>>, <<42873, 42875, 2, 1>>,
     <<42877, 42877, 1, -35332>>, <<42878, 42886, 2, 1>>,
     <<42891, 42891, 1, 1>>, <<42893, 42893, 1, -42280>>,
     <<42896, 42898, 2, 1>>, <<42902, 42920, 2, 1>>,
     <<42922, 42922, 1, -42308>>, <<42923, 42923, 1, -42319>>,
     <<42924, 42924, 1, -42315>>, <<42925, 42925, 1, -42305>>,
     <<42926, 42926, 1, -42308>>, <<42928, 42928, 1, -42258>>,
     <<42929, 42929, 1, -42282>>, <<42930, 42930, 1, -42261>>,
     <<42931, 42931, 1, 928>>, <<42932, 42946, 2, 1>>,
     <<42948, 42948, 1, -48>>, <<42949, 42949, 1, -42307>>,
     <<42950, 42950, 1, -35384>>, <<42951, 42953, 2, 1>>,
     <<42955, 42955, 1, -42343>>, <<42956, 42970, 2, 1>>,
     <<42972, 42972, 1, -42561>>, <<42997, 42997, 1, 1>>,
     <<65313, 65338, 1, 32>>, <<66560, 66599, 1, 40>>,
     <<66736, 66771, 1, 40>>, <<66928, 66938, 1, 39>>,
     <<66940, 66954, 1, 39>>, <<66956, 66962, 1, 39>>,
     <<66964, 66965, 1, 39>>, <<68736, 68786, 1, 64>>,
     <<68944, 68965, 1, 32>>, <<71840, 71871, 1, 32>>,
     <<93760, 93791, 1, 32>>, <<93856, 93880, 1, 27>>,
     <<125184, 125217, 1, 34>> >>

\* The property Cased (Lowercase, Uppercase or titlecase letter) beyond
\* ASCII, as ranges <<first, last>>.  Unicode 17.0.
CASED_RANGES ==
  << <<170, 170>>, <<181, 181>>, <<186, 186>>, <<192, 214>>, <<216, 246>>,
     <<248, 442>>, <<444, 447>>, <<452, 659>>, <<662, 696>>, <<704, 705>>,
     <<736, 740>>, <<837, 837>>, <<880, 883>>, <<886, 887>>, <<890, 893>>,
     <<895, 895>>, <<902, 902>>, <<904, 906>>, <<908, 908>>, <<910, 929>>,
     <<931, 1013>>, <<1015, 1153>>, <<1162, 1327>>, <<1329, 1366>>,
     <<1376, 1416>>, <<4256, 4293>>, <<4295, 4295>>, <<4301, 4301>>,
     <<4304, 4346>>, <<4348, 4351>>, <<5024, 5109>>, <<5112, 5117>>,
     <<7296, 7306>>, <<7312, 7354>>, <<7357, 7359>>, <<7424, 7615>>,
     <<7680, 7957>>, <<7960, 7965>>, <<7968, 8005>>, <<8008, 8013>>,
     <<8016, 8023>>, <<8025, 8025>>, <<8027, 8027>>, <<8029, 8029>>,
     <<8031, 8061>>, <<8064, 8116>>, <<8118, 8124>>, <<8126, 8126>>,
     <<8130, 8132>>, <<8134, 8140>>, <<8144, 8147>>, <<8150, 8155>>,
     <<8160, 8172>>, <<8178, 8180>>, <<8182, 8188>>, <<8305, 8305>>,
     <<8319, 8319>>, <<8336, 8348>>, <<8450, 8450>>, <<8455, 8455>>,
     <<8458, 8467>>, <<8469, 8469>>, <<8473, 8477>>, <<8484, 8484>>,
     <<8486, 8486>>, <<8488, 8488>>, <<8490, 8493>>, <<8495, 8500>>,
     <<8505, 8505>>, <<8508, 8511>>, <<8517, 8521>>, <<8526, 8526>>,
     <<8544, 8575>>, <<8579, 8580>>, <<9398, 9449>>, <<11264, 11492>>,
     <<11499, 11502>>, <<11506, 11507>>, <<11520, 11557>>,
     <<11559, 11559>>, <<11565, 11565>>, <<42560, 42605>>,
     <<42624, 42653>>, <<42786, 42887>>, <<42891, 42894>>,
     <<42896, 42972>>, <<42993, 42998>>, <<43000, 43002>>,
     <<43824, 43866>>, <<43868, 43881>>, <<43888, 43967>>,
     <<64256, 64262>>, <<64275, 64279>>, <<65313, 65338>>,
     <<65345, 65370>>, <<66560, 66639>>, <<66736, 66771>>,
     <<66776, 66811>>, <<66928, 66938>>, <<66940, 66954>>,
     <<66956, 66962>>, <<66964, 66965>>, <<66967, 66977>>,
     <<66979, 66993>>, <<66995, 67001>>, <<67003, 67004>>,
     <<67456, 67456>>, <<67459, 67461>>, <<67463, 67504>>,
     <<67506, 67514>>, <<68736, 68786>>, <<68800, 68850>>,
     <<68944, 68965>>, <<68976, 68997>>, <<71840, 71903>>,
     <<93760, 93823>>, <<93856, 93880>>, <<93883, 93907>>,
     <<119808, 119892>>, <<119894, 119964>>, <<119966, 119967>>,
     <<119970, 119970>>, <<119973, 119974>>, <<119977, 119980>>,
     <<119982, 119993>>, <<119995, 119995>>, <<119997, 120003>>,
     <<120005, 120069>>, <<120071, 120074>>, <<120077, 120084>>,
     <<120086, 120092>>, <<120094, 120121>>, <<120123, 120126>>,
     <<120128, 120132>>, <<120134, 120134>>, <<120138, 120144>>,
     <<120146, 120485>>, <<120488, 120512>>, <<120514, 120538>>,
     <<120540, 120570>>, <<120572, 120596>>, <<120598, 120628>>,
     <<120630, 120654>>, <<120656, 120686>>, <<120688, 120712>>,
     <<120714, 120744>>, <<120746, 120770>>, <<120772, 120779>>,
     <<122624, 122633>>, <<122635, 122654>>, <<122661, 122666>>,
     <<122928, 122989>>, <<125184, 125251>>, <<127280, 127305>>,
     <<127312, 127337>>, <<127344, 127369>> >>

\* The property Case_Ignorable beyond ASCII, as ranges <<first, last>>.
\* Unicode 17.0.
CASE_IGNORABLE_RANGES ==
  << <<168, 168>>, <<173, 173>>, <<175, 175>>, <<180, 180>>, <<183, 184>>,
     <<688, 879>>, <<884, 885>>, <<890, 890>>, <<900, 901>>, <<903, 903>>,
     <<1155, 1161>>, <<1369, 1369>>, <<1375, 1375>>, <<1425, 1469>>,
     <<1471, 1471>>, <<1473, 1474>>, <<1476, 1477>>, <<1479, 1479>>,
     <<1524, 1524>>, <<1536, 1541>>, <<1552, 1562>>, <<1564, 1564>>,
     <<1600, 1600>>, <<1611, 1631>>, <<1648, 1648>>, <<1750, 1757>>,
     <<1759, 1768>>, <<1770, 1773>>, <<1807, 1807>>, <<1809, 1809>>,
     <<1840, 1866>>, <<1958, 1968>>, <<2027, 2037>>, <<2042, 2042>>,
     <<2045, 2045>>, <<2070, 2093>>, <<2137, 2139>>, <<2184, 2184>>,
     <<2192, 2193>>, <<2199, 2207>>, <<2249, 2306>>, <<2362, 2362>>,
     <<2364, 2364>>, <<2369, 2376>>, <<2381, 2381>>, <<2385, 2391>>,
     <<2402, 2403>>, <<2417, 2417>>, <<2433, 2433>>, <<2492, 2492>>,
     <<2497, 2500>>, <<2509, 2509>>, <<2530, 2531>>, <<2558, 2558>>,
     <<2561, 2562>>, <<2620, 2620>>, <<2625, 2626>>, <<2631, 2632>>,
     <<2635, 2637>>, <<2641, 2641>>, <<2672, 2673>>, <<2677, 2677>>,
     <<2689, 2690>>, <<2748, 2748>>, <<2753, 2757>>, <<2759, 2760>>,
     <<2765, 2765>>, <<2786, 2787>>, <<2810, 2815>>, <<2817, 2817>>,
     <<2876, 2876>>, <<2879, 2879>>, <<2881, 2884>>, <<2893, 2893>>,
     <<2901, 2902>>, <<2914, 2915>>, <<2946, 2946>>, <<3008, 3008>>,
     <<3021, 3021>>, <<3072, 3072>>, <<3076, 3076>>, <<3132, 3132>>,
     <<3134, 3136>>, <<3142, 3144>>, <<3146, 3149>>, <<3157, 3158>>,
     <<3170, 3171>>, <<3201, 3201>>, <<3260, 3260>>, <<3263, 3263>>,
     <<3270, 3270>>, <<3276, 3277>>, <<3298, 3299>>, <<3328, 3329>>,
     <<3387, 3388>>, <<3393, 3396>>, <<3405, 3405>>, <<3426, 3427>>,
     <<3457, 3457>>, <<3530, 3530>>, <<3538, 3540>>, <<3542, 3542>>,
     <<3633, 3633>>, <<3636, 3642>>, <<3654, 3662>>, <<3761, 3761>>,
     <<3764, 3772>>, <<3782, 3782>>, <<3784, 3790>>, <<3864, 3865>>,
     <<3893, 3893>>, <<3895, 3895>>, <<3897, 3897>>, <<3953, 3966>>,
     <<3968, 3972>>, <<3974, 3975>>, <<3981, 3991>>, <<3993, 4028>>,
     <<4038, 4038>>, <<4141, 4144>>, <<4146, 4151>>, <<4153, 4154>>,
     <<4157, 4158>>, <<4184, 4185>>, <<4190, 4192>>, <<4209, 4212>>,
     <<4226, 4226>>, <<4229, 4230>>, <<4237, 4237>>, <<4253, 4253>>,
     <<4348, 4348>>, <<4957, 4959>>, <<5906, 5908>>, <<5938, 5939>>,
     <<5970, 5971>>, <<6002, 6003>>, <<6068, 6069>>, <<6071, 6077>>,
     <<6086, 6086>>, <<6089, 6099>>, <<6103, 6103>>, <<6109, 6109>>,
     <<6155, 6159>>, <<6211, 6211>>, <<6277, 6278>>, <<6313, 6313>>,
     <<6432, 6434>>, <<6439, 6440>>, <<6450, 6450>>, <<6457, 6459>>,
     <<6679, 6680>>, <<6683, 6683>>, <<6742, 6742>>, <<6744, 6750>>,
     <<6752, 6752>>, <<6754, 6754>>, <<6757, 6764>>, <<6771, 6780>>,
     <<6783, 6783>>, <<6823, 6823>>, <<6832, 6877>>, <<6880, 6891>>,
     <<6912, 6915>>, <<6964, 6964>>, <<6966, 6970>>, <<6972, 6972>>,
     <<6978, 6978>>, <<7019, 7027>>, <<7040, 7041>>, <<7074, 7077>>,
     <<7080, 7081>>, <<7083, 7085>>, <<7142, 7142>>, <<7144, 7145>>,
     <<7149, 7149>>, <<7151, 7153>>, <<7212, 7219>>, <<7222, 7223>>,
     <<7288, 7293>>, <<7376, 7378>>, <<7380, 7392>>, <<7394, 7400>>,
     <<7405, 7405>>, <<7412, 7412>>, <<7416, 7417>>, <<7468, 7530>>,
     <<7544, 7544>>, <<7579, 7679>>, <<8125, 8125>>, <<8127, 8129>>,
     <<8141, 8143>>, <<8157, 8159>>, <<8173, 8175>>, <<8189, 8190>>,
     <<8203, 8207>>, <<8216, 8217>>, <<8228, 8228>>, <<8231, 8231>>,
     <<8234, 8238>>, <<8288, 8292>>, <<8294, 8303>>, <<8305, 8305>>,
     <<8319, 8319>>, <<8336, 8348>>, <<8400, 8432>>, <<11388, 11389>>,
     <<11503, 11505>>, <<11631, 11631>>, <<11647, 11647>>,
     <<11744, 11775>>, <<11823, 11823>>, <<12293, 12293>>,
     <<12330, 12333>>, <<12337, 12341>>, <<12347, 12347>>,
     <<12441, 12446>>, <<12540, 12542>>, <<40981, 40981>>,
     <<42232, 42237>>, <<42508, 42508>>, <<42607, 42610>>,
     <<42612, 42621>>, <<42623, 42623>>, <<42652, 42655>>,
     <<42736, 42737>>, <<42752, 42785>>, <<42864, 42864>>,
     <<42888, 42890>>, <<42993, 42996>>, <<43000, 43001>>,
     <<43010, 43010>>, <<43014, 43014>>, <<43019, 43019>>,
     <<43045, 43046>>, <<43052, 43052>>, <<43204, 43205>>,
     <<43232, 43249>>, <<43263, 43263>>, <<43302, 43309>>,
     <<43335, 43345>>, <<43392, 43394>>, <<43443, 43443>>,
     <<43446, 43449>>, <<43452, 43453>>, <<43471, 43471>>,
     <<43493, 43494>>, <<43561, 43566>>, <<43569, 43570>>,
     <<43573, 43574>>, <<43587, 43587>>, <<43596, 43596>>,
     <<43632, 43632>>, <<43644, 43644>>, <<43696, 43696>>,
     <<43698, 43700>>, <<43703, 43704>>, <<43710, 43711>>,
     <<43713, 43713>>, <<43741, 43741>>, <<43756, 43757>>,
     <<43763, 43764>>, <<43766, 43766>>, <<43867, 43871>>,
     <<43881, 43883>>, <<44005, 44005>>, <<44008, 44008>>,
     <<44013, 44013>>, <<64286, 64286>>, <<64434, 64450>>,
     <<65024, 65039>>, <<65043, 65043>>, <<65056, 65071>>,
     <<65106, 65106>>, <<65109, 65109>>, <<65279, 65279>>,
     <<65287, 65287>>, <<65294, 65294>>, <<65306, 65306>>,
     <<65342, 65342>>, <<65344, 65344>>, <<65392, 65392>>,
     <<65438, 65439>>, <<65507, 65507>>, <<65529, 65531>>,
     <<66045, 66045>>, <<66272, 66272>>, <<66422, 66426>>,
     <<67456, 67461>>, <<67463, 67504>>, <<67506, 67514>>,
     <<68097, 68099>>, <<68101, 68102>>, <<68108, 68111>>,
     <<68152, 68154>>, <<68159, 68159>>, <<68325, 68326>>,
     <<68900, 68903>>, <<68942, 68942>>, <<68969, 68973>>,
     <<68975, 68975>>, <<69291, 69292>>, <<69317, 69317>>,
     <<69370, 69375>>, <<69446, 69456>>, <<69506, 69509>>,
     <<69633, 69633>>, <<69688, 69702>>, <<69744, 69744>>,
     <<69747, 69748>>, <<69759, 69761>>, <<69811, 69814>>,
     <<69817, 69818>>, <<69821, 69821>>, <<69826, 69826>>,
     <<69837, 69837>>, <<69888, 69890>>, <<69927, 69931>>,
     <<69933, 69940>>, <<70003, 70003>>, <<70016, 70017>>,
     <<70070, 70078>>, <<70089, 70092>>, <<70095, 70095>>,
     <<70191, 70193>>, <<70196, 70196>>, <<70198, 70199>>,
     <<70206, 70206>>, <<70209, 70209>>, <<70367, 70367>>,
     <<70371, 70378>>, <<70400, 70401>>, <<70459, 70460>>,
     <<70464, 70464>>, <<70502, 70508>>, <<70512, 70516>>,
     <<70587, 70592>>, <<70606, 70606>>, <<70608, 70608>>,
     <<70610, 70610>>, <<70625, 70626>>, <<70712, 70719>>,
     <<70722, 70724>>, <<70726, 70726>>, <<70750, 70750>>,
     <<70835, 70840>>, <<70842, 70842>>, <<70847, 70848>>,
     <<70850, 70851>>, <<71090, 71093>>, <<71100, 71101>>,
     <<71103, 71104>>, <<71132, 71133>>, <<71219, 71226>>,
     <<71229, 71229>>, <<71231, 71232>>, <<71339, 71339>>,
     <<71341, 71341>>, <<71344, 71349>>, <<71351, 71351>>,
     <<71453, 71453>>, <<71455, 71455>>, <<71458, 71461>>,
     <<71463, 71467>>, <<71727, 71735>>, <<71737, 71738>>,
     <<71995, 71996>>, <<71998, 71998>>, <<72003, 72003>>,
     <<72148, 72151>>, <<72154, 72155>>, <<72160, 72160>>,
     <<72193, 72202>>, <<72243, 72248>>, <<72251, 72254>>,
     <<72263, 72263>>, <<72273, 72278>>, <<72281, 72283>>,
     <<72330, 72342>>, <<72344, 72345>>, <<72544, 72544>>,
     <<72546, 72548>>, <<72550, 72550>>, <<72752, 72758>>,
     <<72760, 72765>>, <<72767, 72767>>, <<72850, 72871>>,
     <<72874, 72880>>, <<72882, 72883>>, <<72885, 72886>>,
     <<73009, 73014>>, <<73018, 73018>>, <<73020, 73021>>,
     <<73023, 73029>>, <<73031, 73031>>, <<73104, 73105>>,
     <<73109, 73109>>, <<73111, 73111>>, <<73177, 73177>>,
     <<73459, 73460>>, <<73472, 73473>>, <<73526, 73530>>,
     <<73536, 73536>>, <<73538, 73538>>, <<73562, 73562>>,
     <<78896, 78912>>, <<78919, 78933>>, <<90398, 90409>>,
     <<90413, 90415>>, <<92912, 92916>>, <<92976, 92982>>,
     <<92992, 92995>>, <<93504, 93506>>, <<93547, 93548>>,
     <<94031, 94031>>, <<94095, 94111>>, <<94176, 94177>>,
     <<94179, 94180>>, <<94194, 94195>>, <<110576, 110579>>,
     <<110581, 110587>>, <<110589, 110590>>, <<113821, 113822>>,
     <<113824, 113827>>, <<118528, 118573>>, <<118576, 118598>>,
     <<119143, 119145>>, <<119155, 119170>>, <<119173, 119179>>,
     <<119210, 119213>>, <<119362, 119364>>, <<121344, 121398>>,
     <<121403, 121452>>, <<121461, 121461>>, <<121476, 121476>>,
     <<121499, 121503>>, <<121505, 121519>>, <<122880, 122886>>,
     <<122888, 122904>>, <<122907, 122913>>, <<122915, 122916>>,
     <<122918, 122922>>, <<122928, 122989>>, <<123023, 123023>>,
     <<123184, 123197>>, <<123566, 123566>>, <<123628, 123631>>,
     <<124139, 124143>>, <<124398, 124399>>, <<124643, 124643>>,
     <<124646, 124646>>, <<124654, 124655>>, <<124661, 124661>>,
     <<124671, 124671>>, <<125136, 125142>>, <<125252, 125259>>,
     <<127995, 127999>>, <<917505, 917505>>, <<917536, 917631>>,
     <<917760, 917999>> >>

InRanges(c, ranges) ==
  \E k \in 1..Len(ranges) : ranges[k][1] <= c /\ c <= ranges[k][2]

\* char::to_lowercase() of a character with a one-character lowercase (all
\* but U+0130).
ToLowerChar(c) ==
  IF c < 128 THEN (IF c >= 65 /\ c <= 90 THEN c + 32 ELSE c)
  ELSE IF \E k \in 1..Len(LOWERCASE_RUNS) :
            /\ LOWERCASE_RUNS[k][1] <= c /\ c <= LOWERCASE_RUNS[k][2]
            /\ (c - LOWERCASE_RUNS[k][1]) % LOWERCASE_RUNS[k][3] = 0
  THEN LET k == CHOOSE k \in 1..Len(LOWERCASE_RUNS) :
                  /\ LOWERCASE_RUNS[k][1] <= c /\ c <= LOWERCASE_RUNS[k][2]
                  /\ (c - LOWERCASE_RUNS[k][1]) % LOWERCASE_RUNS[k][3] = 0
       IN  c + LOWERCASE_RUNS[k][4]
  ELSE c

\* Cased(c)
Cased(c) ==
  IF c < 128 THEN (c >= 65 /\ c <= 90) \/ (c >= 97 /\ c <= 122)
  ELSE InRanges(c, CASED_RANGES)

\* Case_Ignorable(c); in ASCII: ' . : ^ `
CaseIgnorable(c) ==
  IF c < 128 THEN c \in {39, 46, 58, 94, 96}
  ELSE InRanges(c, CASE_IGNORABLE_RANGES)

\* case_ignorable_then_cased over the characters before position i, going
\* backwards: the nearest one that is not case-ignorable exists and is cased.
CasedBefore(s, i) ==
  \E j \in 1..(i - 1) :
    /\ ~CaseIgnorable(s[j])
    /\ Cased(s[j])
    /\ \A k \in (j + 1)..(i - 1) : CaseIgnorable(s[k])

\* case_ignorable_then_cased over the characters after position i.
CasedAfter(s, i) ==
  \E j \in (i + 1)..Len(s) :
    /\ ~CaseIgnorable(s[j])
    /\ Cased(s[j])
    /\ \A k \in (i + 1)..(j - 1) : CaseIgnorable(s[k])

\* The lowercase of s[i] within s: a capital sigma (931) becomes the final
\* sigma (962) at the end of a word and the small sigma (963) elsewhere;
\* U+0130 becomes i followed by the combining dot above.
LowerAt(s, i) ==
  IF s[i] = 931
  THEN (IF CasedBefore(s, i) /\ ~CasedAfter(s, i) THEN << 962 >> ELSE << 963 >>)
  ELSE IF s[i] = 304 THEN << 105, 775 >>
  ELSE << ToLowerChar(s[i]) >>

\* The lowercase of s[lo..hi], put together by halves.
RECURSIVE LowerRange(_, _, _)
LowerRange(s, lo, hi) ==
  IF lo > hi THEN << >>
  ELSE IF lo = hi THEN LowerAt(s, lo)
  ELSE LET mid == (lo + hi) \div 2
       IN  LowerRange(s, lo, mid) \o LowerRange(s, mid + 1, hi)

\* str::to_lowercase()
ToLowercase(s) == LowerRange(s, 1, Len(s))

\* str::split(ch).collect::<Vec<&str>>(): the pieces between occurrences of
\* ch, empty pieces kept; a string without ch is one piece.
Split(s, ch) ==
  LET at    == {i \in 1..Len(s) : s[i] = ch}
      \* the k-th occurrence of ch; 0 before the first, Len(s)+1 after the last
      pos(k) == IF k = 0 THEN 0
                ELSE IF k > Cardinality(at) THEN Len(s) + 1
                ELSE CHOOSE i \in at : Cardinality({j \in at : j < i}) = k - 1
  IN  [k \in 1..(Cardinality(at) + 1) |-> SubSeq(s, pos(k - 1) + 1, pos(k) - 1)]

\* str::contains("..")
ContainsDotDot(s) ==
  \E i \in 1..(Len(s) - 1) : s[i] = CH_DOT /\ s[i + 1] = CH_DOT

\* ------------------------------------------------------------------------
\* The pattern of lib.rs:132 as a syntax tree, and Regex::is_match
\* ------------------------------------------------------------------------

Rng(lo, hi)   == << lo, hi >>
Cls(ranges)   == [op |-> "class", ranges |-> ranges]
Lit(c)        == [op |-> "lit", c |-> c]
Cat(items)    == [op |-> "cat", items |-> items]
Opt(sub)      == [op |-> "opt", sub |-> sub]
Star(sub)     == [op |-> "star", sub |-> sub]
AtLeast(n, sub) == [op |-> "atleast", n |-> n, sub |-> sub]
StartText     == [op |-> "start"]
EndText       == [op |-> "end"]

LowerAZ == Rng(97, 122)
UpperAZ == Rng(65, 90)
Digit09 == Rng(48, 57)
One(c)  == Rng(c, c)

\* [a-zA-Z0-9_%+-]
ClassWord == Cls(<< LowerAZ, UpperAZ, Digit09, One(95), One(37), One(43), One(45) >>)
\* [a-zA-Z0-9._%+-]
ClassBody == Cls(<< LowerAZ, UpperAZ, Digit09, One(46), One(95), One(37), One(43), One(45) >>)
\* [a-zA-Z0-9]
ClassAlnum == Cls(<< LowerAZ, UpperAZ, Digit09 >>)
\* [a-zA-Z0-9-]
ClassAlnumHyphen == Cls(<< LowerAZ, UpperAZ, Digit09, One(45) >>)
\* [a-zA-Z]
ClassAlpha == Cls(<< LowerAZ, UpperAZ >>)

\* [a-zA-Z0-9](?:[a-zA-Z0-9-]*[a-zA-Z0-9])?
PatLabel == Cat(<< ClassAlnum, Opt(Cat(<< Star(ClassAlnumHyphen), ClassAlnum >>)) >>)

\* ^[a-zA-Z0-9_%+-](?:[a-zA-Z0-9._%+-]*[a-zA-Z0-9_%+-])?@
\*  [a-zA-Z0-9](?:[a-zA-Z0-9-]*[a-zA-Z0-9])?
\*  (?:\.[a-zA-Z0-9](?:[a-zA-Z0-9-]*[a-zA-Z0-9])?)*\.[a-zA-Z]{2,}$
EMAIL_PATTERN ==
  Cat(<< StartText,
         ClassWord,
         Opt(Cat(<< Star(ClassBody), ClassWord >>)),
         Lit(CH_AT),
         PatLabel,
         Star(Cat(<< Lit(CH_DOT), PatLabel >>)),
         Lit(CH_DOT),
         AtLeast(2, ClassAlpha),
         EndText >>)

InClass(c, ranges) == InRanges(c, ranges)

\* Ends(re, s, I): the positions where a match of re can end when it starts
\* at one of the positions I of s (position i is before s[i]; Len(s)+1 is
\* the end of the text).  ^ and $ are not multi-line: they hold only at the
\* start and at the end of the text.
RECURSIVE Ends(_, _, _), EndsCat(_, _, _, _), StarUpTo(_, _, _, _), EndsStar(_, _, _), EndsTimes(_, _, _, _)
Ends(re, s, I) ==
  CASE re.op = "start"   -> I \cap {1}
    [] re.op = "end"     -> I \cap {Len(s) + 1}
    [] re.op = "lit"     -> {i + 1 : i \in {j \in I : j <= Len(s) /\ s[j] = re.c}}
    [] re.op = "class"   -> {i + 1 : i \in {j \in I : j <= Len(s) /\ InClass(s[j], re.ranges)}}
    [] re.op = "cat"     -> EndsCat(re.items, 1, s, I)
    [] re.op = "opt"     -> I \cup Ends(re.sub, s, I)
    [] re.op = "star"    -> EndsStar(re.sub, s, I)
    [] re.op = "atleast" -> EndsStar(re.sub, s, EndsTimes(re.sub, re.n, s, I))

EndsCat(items, k, s, I) ==
  IF k > Len(items) \/ I = {} THEN I
  ELSE EndsCat(items, k + 1, s, Ends(items[k], s, I))

\* One more repetition of sub: st.reached holds every end position found so
\* far, st.frontier those not yet extended.
StarStep(sub, s, st) ==
  LET more == Ends(sub, s, st.frontier) \ st.reached
  IN  [reached |-> st.reached \cup more, frontier |-> more]

\* At most n more repetitions, stopping once nothing new is reached; the
\* repetitions are taken by halves (the recursion stays shallow on long
\* strings).
StarUpTo(sub, s, st, n) ==
  IF st.frontier = {} \/ n = 0 THEN st
  ELSE IF n = 1 THEN StarStep(sub, s, st)
  ELSE StarUpTo(sub, s, StarUpTo(sub, s, st, n \div 2), n - (n \div 2))

\* Every repetition adds an end position or stops, and there are Len(s)+1
\* positions.
EndsStar(sub, s, I) ==
  StarUpTo(sub, s, [reached |-> I, frontier |-> I], Len(s) + 1).reached

\* n repetitions; once a repetition changes nothing (no position is left,
\* or sub matched only the empty string) no later one does.
EndsTimes(sub, n, s, I) ==
  IF n = 0 THEN I
  ELSE LET J == Ends(sub, s, I)
       IN  IF J = I THEN I ELSE EndsTimes(sub, n - 1, s, J)

\* Regex::is_match(text): an unanchored search, a match may start anywhere.
IsMatch(regex, s) == Ends(regex, s, 1..(Len(s) + 1)) # {}

\* ------------------------------------------------------------------------
\* score_domain (lib.rs:58-81)
\* ------------------------------------------------------------------------

\* "google.com"
GOOGLE_COM == <<103, 111, 111, 103, 108, 101, 46, 99, 111, 109>>
\* "outlook.com"
OUTLOOK_COM == <<111, 117, 116, 108, 111, 111, 107, 46, 99, 111, 109>>
\* "yahoo.com"
YAHOO_COM == <<121, 97, 104, 111, 111, 46, 99, 111, 109>>
\* "mailinator.com"
MAILINATOR_COM == <<109, 97, 105, 108, 105, 110, 97, 116, 111, 114, 46, 99, 111, 109>>
\* "tempmail.com"
TEMPMAIL_COM == <<116, 101, 109, 112, 109, 97, 105, 108, 46, 99, 111, 109>>

\* vec!["google.com", "outlook.com", "yahoo.com"]
trusted_domains == << GOOGLE_COM, OUTLOOK_COM, YAHOO_COM >>

\* vec!["mailinator.com", "tempmail.com"]
disposable_domains == << MAILINATOR_COM, TEMPMAIL_COM >>

\* Vec::contains
VecContains(v, x) == \E k \in 1..Len(v) : v[k] = x

\* Mutant: the domain looked up as written, not lowercased.
domain_lower_AsWritten(domain) == domain

\* let domain_lower = domain.to_lowercase();
domain_lower(domain) == ToLowercase(domain)

\* The f64 scores 80.0, 20.0 and 50.0 are the integers 80, 20 and 50.
score_domain(domain) ==
  IF VecContains(trusted_domains, domain_lower(domain)) THEN 80
  ELSE IF VecContains(disposable_domains, domain_lower(domain)) THEN 20
  ELSE 50

\* ------------------------------------------------------------------------
\* parse_and_validate_email (lib.rs:111-185)
\* ------------------------------------------------------------------------

Ok(v)  == [tag |-> "Ok", value |-> v]
Err(e) == [tag |-> "Err", value |-> e]

MSG_EMPTY    == "Email cannot be empty"
MSG_TOO_LONG == "Email exceeds maximum length of 320 characters"
MSG_FORMAT   == "Invalid email format"

\* Mutant: an early return that defaults the score to 0 instead of None.
InvalidResult_ZeroScore(msg) ==
  [is_valid      |-> FALSE,
   local_part    |-> None,
   domain        |-> None,
   domain_score  |-> Some(0),
   error_message |-> Some(msg)]

\* The EmailParseResult of every early return.
InvalidResult(msg) ==
  [is_valid      |-> FALSE,
   local_part    |-> None,
   domain        |-> None,
   domain_score  |-> None,
   error_message |-> Some(msg)]

\* The EmailParseResult of lib.rs:178-184.
ValidResult(local_part, domain, domain_score) ==
  [is_valid      |-> TRUE,
   local_part    |-> Some(local_part),
   domain        |-> Some(domain),
   domain_score  |-> Some(domain_score),
   error_message |-> None]

\* The EmailParseError of lib.rs:134-138.
RegexError(details) ==
  [error_type |-> "RegexError",
   message    |-> "Failed to compile email regex",
   details    |-> Some(details)]

\* lib.rs:112
FailsEmptiness(email) == IsEmpty(email)

\* Mutant: the length bound off by one (>= for >).
FailsLength_OffByOne(email) == StrLen(email) >= MAX_EMAIL_LEN

\* lib.rs:122
FailsLength(email) == StrLen(email) > MAX_EMAIL_LEN

\* Mutant: a pattern literal that Regex::new rejects.
CompileEmailRegex_Malformed == Err("regex parse error")

\* lib.rs:132-133: Regex::new on the pattern literal, a constant of the
\* program.  The literal is well formed, and Regex::new returns Ok with the
\* compiled pattern on every call.
CompileEmailRegex == Ok(EMAIL_PATTERN)

\* lib.rs:141
FailsPattern(regex, email) == ~IsMatch(regex, email)

\* lib.rs:151
SplitParts(email) == Split(email, CH_AT)

\* lib.rs:152
FailsSeparator(parts) == Len(parts) # 2

\* Mutant: the consecutive-dot guard left out.
FailsDotGuard_Removed(parts) == FALSE

\* lib.rs:162-163
FailsDotGuard(parts) == ContainsDotDot(parts[1])

\* Mutant: the domain returned lowercased.
Accept_Lowercased(parts) ==
  ValidResult(parts[1], ToLowercase(parts[2]), score_domain(parts[2]))

\* lib.rs:173-184
Accept(parts) == ValidResult(parts[1], parts[2], score_domain(parts[2]))

\* The whole call, as one function of its argument.
parse_and_validate_email(email) ==
  IF FailsEmptiness(email) THEN Ok(InvalidResult(MSG_EMPTY))
  ELSE IF FailsLength(email) THEN Ok(InvalidResult(MSG_TOO_LONG))
  ELSE LET compiled == CompileEmailRegex IN
    IF compiled.tag = "Err" THEN Err(RegexError(compiled.value))
    ELSE IF FailsPattern(compiled.value, email) THEN Ok(InvalidResult(MSG_FORMAT))
    ELSE LET parts == SplitParts(email) IN
      IF FailsSeparator(parts) THEN Ok(InvalidResult(MSG_FORMAT))
      ELSE IF FailsDotGuard(parts) THEN Ok(InvalidResult(MSG_FORMAT))
      ELSE Ok(Accept(parts))

\* ------------------------------------------------------------------------
\* Inputs
\* ------------------------------------------------------------------------

\* Longest generated local part and domain.
MaxLocalLen == 4
MaxDomainLen == 4

\* Callers and calls of the concurrent specification.
NThreads == 2
MaxCalls == 3

SeqsUpTo(alphabet, n) == UNION {[1..k -> alphabet] : k \in 0..n}

Repeat(c, n) == [i \in 1..n |-> c]

\* Local parts over a, '.'; separators none, @, @@; domains over b, '.', '-'.
GeneratedEmails ==
  {l \o sep \o d :
     l \in SeqsUpTo({97, CH_DOT}, MaxLocalLen),
     sep \in {<< >>, << CH_AT >>, << CH_AT, CH_AT >>},
     d \in SeqsUpTo({98, CH_DOT, 45}, MaxDomainLen)}

\* lib.rs:290-340, special_char_emails of test_edge_cases
SpecialCharEmails ==
  {
    <<116, 101, 115, 116, 64, 100, 111, 109, 97, 105, 110, 46, 99, 111, 109, 33>>,  \* test@domain.com<U+0021>
    <<116, 101, 115, 116, 64, 100, 111, 109, 97, 105, 110, 46, 99, 111, 109, 35>>,  \* test@domain.com<U+0023>
    <<116, 101, 115, 116, 35, 64, 100, 111, 109, 97, 105, 110, 46, 99, 111, 109>>,  \* test<U+0023>@domain.com
    <<116, 101, 115, 116, 64, 100, 111, 109, 97, 105, 110, 46, 99, 111, 109, 36>>,  \* test@domain.com<U+0024>
    <<116, 101, 115, 116, 36, 64, 100, 111, 109, 97, 105, 110, 46, 99, 111, 109>>,  \* test<U+0024>@domain.com
    <<116, 101, 115, 116, 64, 100, 111, 109, 97, 105, 110, 46, 99, 111, 109, 38>>,  \* test@domain.com<U+0026>
    <<116, 101, 115, 116, 38, 64, 100, 111, 109, 97, 105, 110, 46, 99, 111, 109>>,  \* test<U+0026>@domain.com
    <<116, 101, 115, 116, 64, 100, 111, 109, 97, 105, 110, 46, 99, 111, 109, 42>>,  \* test@domain.com<U+002A>
    <<116, 101, 115, 116, 42, 64, 100, 111, 109, 97, 105, 110, 46, 99, 111, 109>>,  \* test<U+002A>@domain.com
    <<116, 101, 115, 116, 64, 100, 111, 109, 97, 105, 110, 46, 99, 111, 109, 40>>,  \* test@domain.com<U+0028>
    <<116, 101, 115, 116, 40, 64, 100, 111, 109, 97, 105, 110, 46, 99, 111, 109>>,  \* test<U+0028>@domain.com
    <<116, 101, 115, 116, 64, 100, 111, 109, 97, 105, 110, 46, 99, 111, 109, 41>>,  \* test@domain.com<U+0029>
    <<116, 101, 115, 116, 41, 64, 100, 111, 109, 97, 105, 110, 46, 99, 111, 109>>,  \* test<U+0029>@domain.com
    <<116, 101, 115, 116, 64, 100, 111, 109, 97, 105, 110, 46, 99, 111, 109, 91>>,  \* test@domain.com<U+005B>
    <<116, 101, 115, 116, 91, 64, 100, 111, 109, 97, 105, 110, 46, 99, 111, 109>>,  \* test<U+005B>@domain.com
    <<116, 101, 115, 116, 64, 100, 111, 109, 97, 105, 110, 46, 99, 111, 109, 93>>,  \* test@domain.com<U+005D>
    <<116, 101, 115, 116, 93, 64, 100, 111, 109, 97, 105, 110, 46, 99, 111, 109>>,  \* test<U+005D>@domain.com
    <<116, 101, 115, 116, 64, 100, 111, 109, 97, 105, 110, 46, 99, 111, 109, 123>>,  \* test@domain.com<U+007B>
    <<116, 101, 115, 116, 123, 64, 100, 111, 109, 97, 105, 110, 46, 99, 111, 109>>,  \* test<U+007B>@domain.com
    <<116, 101, 115, 116, 64, 100, 111, 109, 97, 105, 110, 46, 99, 111, 109, 125>>,  \* test@domain.com<U+007D>
    <<116, 101, 115, 116, 125, 64, 100, 111, 109, 97, 105, 110, 46, 99, 111, 109>>,  \* test<U+007D>@domain.com
    <<116, 101, 115, 116, 64, 100, 111, 109, 97, 105, 110, 46, 99, 111, 109, 92>>,  \* test@domain.com<U+005C>
    <<116, 101, 115, 116, 92, 64, 100, 111, 109, 97, 105, 110, 46, 99, 111, 109>>,  \* test<U+005C>@domain.com
    <<116, 101, 115, 116, 64, 100, 111, 109, 97, 105, 110, 46, 99, 111, 109, 47>>,  \* test@domain.com<U+002F>
    <<116, 101, 115, 116, 47, 64, 100, 111, 109, 97, 105, 110, 46, 99, 111, 109>>,  \* test<U+002F>@domain.com
    <<116, 101, 115, 116, 64, 100, 111, 109, 97, 105, 110, 46, 99, 111, 109, 124>>,  \* test@domain.com<U+007C>
    <<116, 101, 115, 116, 124, 64, 100, 111, 109, 97, 105, 110, 46, 99, 111, 109>>,  \* test<U+007C>@domain.com
    <<116, 101, 115, 116, 64, 100, 111, 109, 97, 105, 110, 46, 99, 111, 109, 60>>,  \* test@domain.com<U+003C>
    <<116, 101, 115, 116, 60, 64, 100, 111, 109, 97, 105, 110, 46, 99, 111, 109>>,  \* test<U+003C>@domain.com
    <<116, 101, 115, 116, 64, 100, 111, 109, 97, 105, 110, 46, 99, 111, 109, 62>>,  \* test@domain.com<U+003E>
    <<116, 101, 115, 116, 62, 64, 100, 111, 109, 97, 105, 110, 46, 99, 111, 109>>,  \* test<U+003E>@domain.com
    <<116, 101, 115, 116, 64, 100, 111, 109, 97, 105, 110, 46, 99, 111, 109, 63>>,  \* test@domain.com<U+003F>
    <<116, 101, 115, 116, 63, 64, 100, 111, 109, 97, 105, 110, 46, 99, 111, 109>>,  \* test<U+003F>@domain.com
    <<116, 101, 115, 116, 64, 100, 111, 109, 97, 105, 110, 46, 99, 111, 109, 58>>,  \* test@domain.com<U+003A>
    <<116, 101, 115, 116, 58, 64, 100, 111, 109, 97, 105, 110, 46, 99, 111, 109>>,  \* test<U+003A>@domain.com
    <<116, 101, 115, 116, 64, 100, 111, 109, 97, 105, 110, 46, 99, 111, 109, 59>>,  \* test@domain.com<U+003B>
    <<116, 101, 115, 116, 59, 64, 100, 111, 109, 97, 105, 110, 46, 99, 111, 109>>,  \* test<U+003B>@domain.com
    <<116, 101, 115, 116, 64, 100, 111, 109, 97, 105, 110, 46, 99, 111, 109, 34>>,  \* test@domain.com<U+0022>
    <<116, 101, 115, 116, 34, 64, 100, 111, 109, 97, 105, 110, 46, 99, 111, 109>>,  \* test<U+0022>@domain.com
    <<116, 101, 115, 116, 64, 100, 111, 109, 97, 105, 110, 46, 99, 111, 109, 39>>,  \* test@domain.com<U+0027>
    <<116, 101, 115, 116, 39, 64, 100, 111, 109, 97, 105, 110, 46, 99, 111, 109>>,  \* test<U+0027>@domain.com
    <<116, 101, 115, 116, 64, 100, 111, 109, 97, 105, 110, 46, 99, 111, 109, 96>>,  \* test@domain.com<U+0060>
    <<116, 101, 115, 116, 96, 64, 100, 111, 109, 97, 105, 110, 46, 99, 111, 109>>,  \* test<U+0060>@domain.com
    <<116, 101, 115, 116, 64, 100, 111, 109, 97, 105, 110, 46, 99, 111, 109, 126>>,  \* test@domain.com<U+007E>
    <<116, 101, 115, 116, 126, 64, 100, 111, 109, 97, 105, 110, 46, 99, 111, 109>>,  \* test<U+007E>@domain.com
    <<116, 101, 115, 116, 64, 100, 111, 109, 97, 105, 110, 46, 99, 111, 109, 61>>,  \* test@domain.com<U+003D>
    <<116, 101, 115, 116, 61, 64, 100, 111, 109, 97, 105, 110, 46, 99, 111, 109>>,  \* test<U+003D>@domain.com
    <<116, 101, 115, 116, 64, 100, 111, 109, 97, 105, 110, 46, 99, 111, 109, 44>>,  \* test@domain.com<U+002C>
    <<116, 101, 115, 116, 44, 64, 100, 111, 109, 97, 105, 110, 46, 99, 111, 109>>  \* test<U+002C>@domain.com
  }

\* lib.rs:350-380, unicode_emails of test_edge_cases
UnicodeEmails ==
  {
    <<116, 101, 115, 116, 64, 109, 252, 110, 99, 104, 101, 110, 46, 100, 101>>,  \* test@m<U+00FC>nchen.de
    <<116, 101, 115, 116, 64, 1084, 1086, 1089, 1082, 1074, 1072, 46, 1088, 1092>>,  \* test@<U+043C><U+043E><U+0441><U+043A><U+0432><U+0430>.<U+0440><U+0444>
    <<116, 101, 115, 116, 64, 20013, 22269, 46, 99, 110>>,  \* test@<U+4E2D><U+56FD>.cn
    <<116, 101, 115, 116, 64, 26085, 26412, 46, 106, 112>>,  \* test@<U+65E5><U+672C>.jp
    <<116, 101, 115, 116, 64, 54620, 44397, 46, 107, 114>>,  \* test@<U+D55C><U+AD6D>.kr
    <<116, 101, 115, 116, 64, 1575, 1604, 1593, 1585, 1576, 1610, 1577, 46, 115, 97>>,  \* test@<U+0627><U+0644><U+0639><U+0631><U+0628><U+064A><U+0629>.sa
    <<116, 101, 115, 116, 64, 949, 955, 955, 940, 948, 945, 46, 103, 114>>,  \* test@<U+03B5><U+03BB><U+03BB><U+03AC><U+03B4><U+03B1>.gr
    <<116, 101, 115, 116, 64, 1506, 1489, 1512, 1497, 1514, 46, 105, 108>>,  \* test@<U+05E2><U+05D1><U+05E8><U+05D9><U+05EA>.il
    <<116, 101, 115, 116, 64, 3652, 3607, 3618, 46, 116, 104>>,  \* test@<U+0E44><U+0E17><U+0E22>.th
    <<116, 101, 115, 116, 64, 118, 105, 7879, 116, 110, 97, 109, 46, 118, 110>>,  \* test@vi<U+1EC7>tnam.vn
    <<116, 101, 115, 116, 64, 2349, 2366, 2352, 2340, 46, 105, 110>>,  \* test@<U+092D><U+093E><U+0930><U+0924>.in
    <<116, 101, 115, 116, 64, 2476, 2494, 2434, 2482, 2494, 46, 98, 100>>,  \* test@<U+09AC><U+09BE><U+0982><U+09B2><U+09BE>.bd
    <<116, 101, 115, 116, 64, 2980, 2990, 3007, 2996, 3021, 46, 105, 110>>,  \* test@<U+0BA4><U+0BAE><U+0BBF><U+0BB4><U+0BCD>.in
    <<116, 101, 115, 116, 64, 2711, 2753, 2716, 2736, 2750, 2724, 2752, 46, 105, 110>>,  \* test@<U+0A97><U+0AC1><U+0A9C><U+0AB0><U+0ABE><U+0AA4><U+0AC0>.in
    <<116, 101, 115, 116, 64, 3221, 3240, 3277, 3240, 3233, 46, 105, 110>>,  \* test@<U+0C95><U+0CA8><U+0CCD><U+0CA8><U+0CA1>.in
    <<116, 101, 115, 116, 64, 3374, 3378, 3375, 3390, 3379, 3330, 46, 105, 110>>,  \* test@<U+0D2E><U+0D32><U+0D2F><U+0D3E><U+0D33><U+0D02>.in
    <<116, 101, 115, 116, 64, 3108, 3142, 3122, 3137, 3095, 3137, 46, 105, 110>>,  \* test@<U+0C24><U+0C46><U+0C32><U+0C41><U+0C17><U+0C41>.in
    <<116, 101, 115, 116, 64, 2835, 2849, 2876, 2879, 2822, 46, 105, 110>>,  \* test@<U+0B13><U+0B21><U+0B3C><U+0B3F><U+0B06>.in
    <<116, 101, 115, 116, 64, 1662, 1575, 1705, 1587, 1578, 1575, 1606, 46, 112, 107>>,  \* test@<U+067E><U+0627><U+06A9><U+0633><U+062A><U+0627><U+0646>.pk
    <<116, 101, 115, 116, 64, 1575, 1601, 1594, 1575, 1606, 1587, 1578, 1575, 1606, 46, 97, 102>>,  \* test@<U+0627><U+0641><U+063A><U+0627><U+0646><U+0633><U+062A><U+0627><U+0646>.af
    <<116, 101, 115, 116, 64, 116, 252, 114, 107, 105, 121, 101, 46, 116, 114>>,  \* test@t<U+00FC>rkiye.tr
    <<116, 101, 115, 116, 64, 269, 101, 353, 116, 105, 110, 97, 46, 99, 122>>,  \* test@<U+010D>e<U+0161>tina.cz
    <<116, 101, 115, 116, 64, 115, 108, 111, 118, 101, 110, 269, 105, 110, 97, 46, 115, 107>>,  \* test@sloven<U+010D>ina.sk
    <<116, 101, 115, 116, 64, 114, 111, 109, 226, 110, 259, 46, 114, 111>>,  \* test@rom<U+00E2>n<U+0103>.ro
    <<116, 101, 115, 116, 64, 1073, 1098, 1083, 1075, 1072, 1088, 1089, 1082, 1080, 46, 98, 103>>,  \* test@<U+0431><U+044A><U+043B><U+0433><U+0430><U+0440><U+0441><U+043A><U+0438>.bg
    <<116, 101, 115, 116, 64, 1089, 1088, 1087, 1089, 1082, 1080, 46, 114, 115>>,  \* test@<U+0441><U+0440><U+043F><U+0441><U+043A><U+0438>.rs
    <<116, 101, 115, 116, 64, 115, 108, 111, 118, 101, 110, 353, 269, 105, 110, 97, 46, 115, 105>>,  \* test@sloven<U+0161><U+010D>ina.si
    <<116, 101, 115, 116, 64, 108, 97, 116, 118, 105, 101, 353, 117, 46, 108, 118>>,  \* test@latvie<U+0161>u.lv
    <<116, 101, 115, 116, 64, 237, 115, 108, 101, 110, 115, 107, 97, 46, 105, 115>>  \* test@<U+00ED>slenska.is
  }

\* lib.rs:390-404, edge_case_emails of test_edge_cases
EdgeCaseEmails ==
  {
    <<97, 64, 98, 46, 99, 111>>,  \* a@b.co
    <<116, 101, 115, 116, 64, 115, 117, 98, 46, 100, 111, 109, 97, 105, 110, 46, 99, 111, 109>>,  \* test@sub.domain.com
    <<116, 101, 115, 116, 64, 100, 111, 109, 97, 105, 110, 45, 110, 97, 109, 101, 46, 99, 111, 109>>,  \* test@domain-name.com
    <<116, 101, 115, 116, 45, 117, 115, 101, 114, 64, 100, 111, 109, 97, 105, 110, 46, 99, 111, 109>>,  \* test-user@domain.com
    <<116, 101, 115, 116, 46, 117, 115, 101, 114, 64, 100, 111, 109, 97, 105, 110, 46, 99, 111, 109>>,  \* test.user@domain.com
    <<116, 101, 115, 116, 95, 117, 115, 101, 114, 64, 100, 111, 109, 97, 105, 110, 46, 99, 111, 109>>,  \* test_user@domain.com
    <<116, 101, 115, 116, 43, 116, 97, 103, 64, 100, 111, 109, 97, 105, 110, 46, 99, 111, 109>>,  \* test+tag@domain.com
    <<116, 101, 115, 116, 37, 112, 101, 114, 99, 101, 110, 116, 64, 100, 111, 109, 97, 105, 110, 46, 99, 111, 109>>,  \* test%percent@domain.com
    <<49, 50, 51, 64, 52, 53, 54, 46, 99, 111, 109>>,  \* 123@456.com
    <<116, 101, 115, 116, 64, 49, 50, 51, 100, 111, 109, 97, 105, 110, 46, 99, 111, 109>>,  \* test@123domain.com
    <<116, 101, 115, 116, 64, 100, 111, 109, 97, 105, 110, 49, 50, 51, 46, 99, 111, 109>>,  \* test@domain123.com
    <<116, 101, 115, 116, 64, 97, 45, 118, 101, 114, 121, 45, 108, 111, 110, 103, 45, 100, 111, 109, 97, 105, 110, 45, 110, 97, 109, 101, 45, 116, 104, 97, 116, 45, 105, 115, 45, 115, 116, 105, 108, 108, 45, 118, 97, 108, 105, 100, 46, 99, 111, 109>>,  \* test@a-very-long-domain-name-that-is-still-valid.com
    <<97, 45, 118, 101, 114, 121, 45, 108, 111, 110, 103, 45, 108, 111, 99, 97, 108, 45, 112, 97, 114, 116, 45, 116, 104, 97, 116, 45, 115, 104, 111, 117, 108, 100, 45, 115, 116, 105, 108, 108, 45, 98, 101, 45, 118, 97, 108, 105, 100, 64, 100, 111, 109, 97, 105, 110, 46, 99, 111, 109>>  \* a-very-long-local-part-that-should-still-be-valid@domain.com
  }

\* lib.rs:417-441, malformed_emails of test_edge_cases
MalformedEmails ==
  {
    <<64, 100, 111, 109, 97, 105, 110, 46, 99, 111, 109>>,  \* @domain.com
    <<116, 101, 115, 116, 64>>,  \* test@
    <<116, 101, 115, 116, 64, 64, 100, 111, 109, 97, 105, 110, 46, 99, 111, 109>>,  \* test@@domain.com
    <<116, 101, 115, 116, 64, 100, 111, 109, 97, 105, 110>>,  \* test@domain
    <<116, 101, 115, 116, 64, 100, 111, 109, 97, 105, 110, 46>>,  \* test@domain.
    <<116, 101, 115, 116, 64, 46, 100, 111, 109, 97, 105, 110, 46, 99, 111, 109>>,  \* test@.domain.com
    <<116, 101, 115, 116, 64, 100, 111, 109, 97, 105, 110, 46, 46, 99, 111, 109>>,  \* test@domain..com
    <<116, 101, 115, 116, 64, 100, 111, 109, 97, 105, 110, 46, 99>>,  \* test@domain.c
    <<46, 116, 101, 115, 116, 64, 100, 111, 109, 97, 105, 110, 46, 99, 111, 109>>,  \* .test@domain.com
    <<116, 101, 115, 116, 46, 64, 100, 111, 109, 97, 105, 110, 46, 99, 111, 109>>,  \* test.@domain.com
    <<116, 101, 46, 46, 115, 116, 64, 100, 111, 109, 97, 105, 110, 46, 99, 111, 109>>,  \* te..st@domain.com
    <<116, 101, 115, 116, 32, 64, 100, 111, 109, 97, 105, 110, 46, 99, 111, 109>>,  \* test @domain.com
    <<116, 101, 115, 116, 64, 32, 100, 111, 109, 97, 105, 110, 46, 99, 111, 109>>,  \* test@ domain.com
    <<116, 101, 115, 116, 64, 100, 111, 109, 97, 105, 110, 32, 46, 99, 111, 109>>,  \* test@domain .com
    <<116, 101, 115, 116, 64, 100, 111, 109, 97, 105, 110, 46, 32, 99, 111, 109>>,  \* test@domain. com
    <<>>,  \* 
    <<32>>,  \*  
    <<32, 32, 32>>,  \*    
    <<9>>,  \* <U+0009>
    <<10>>,  \* <U+000A>
    <<13>>,  \* <U+000D>
    <<116, 101, 115, 116, 10, 64, 100, 111, 109, 97, 105, 110, 46, 99, 111, 109>>,  \* test<U+000A>@domain.com
    <<116, 101, 115, 116, 64, 100, 111, 109, 97, 105, 110, 10, 46, 99, 111, 109>>  \* test@domain<U+000A>.com
  }

\* The inputs of test_valid_email, test_invalid_email_format and of the doc
\* examples, the domains of test_domain_scoring behind "user@", and
\* further addresses around the grammar's edges.
ScoringEmails ==
  {
    <<116, 101, 115, 116, 64, 101, 120, 97, 109, 112, 108, 101, 46, 99, 111, 109>>,  \* test@example.com
    <<117, 115, 101, 114, 64, 101, 120, 97, 109, 112, 108, 101, 46, 99, 111, 109>>,  \* user@example.com
    <<105, 110, 118, 97, 108, 105, 100, 45, 101, 109, 97, 105, 108>>,  \* invalid-email
    <<116, 101, 115, 116, 50, 46, 99, 111, 109>>,  \* test2.com
    <<117, 115, 101, 114, 64, 103, 111, 111, 103, 108, 101, 46, 99, 111, 109>>,  \* user@google.com
    <<117, 115, 101, 114, 64, 111, 117, 116, 108, 111, 111, 107, 46, 99, 111, 109>>,  \* user@outlook.com
    <<117, 115, 101, 114, 64, 121, 97, 104, 111, 111, 46, 99, 111, 109>>,  \* user@yahoo.com
    <<117, 115, 101, 114, 64, 71, 79, 79, 71, 76, 69, 46, 67, 79, 77>>,  \* user@GOOGLE.COM
    <<117, 115, 101, 114, 64, 89, 97, 104, 111, 111, 46, 67, 111, 109>>,  \* user@Yahoo.Com
    <<117, 115, 101, 114, 64, 109, 97, 105, 108, 105, 110, 97, 116, 111, 114, 46, 99, 111, 109>>,  \* user@mailinator.com
    <<117, 115, 101, 114, 64, 116, 101, 109, 112, 109, 97, 105, 108, 46, 99, 111, 109>>,  \* user@tempmail.com
    <<117, 115, 101, 114, 64, 77, 65, 73, 76, 73, 78, 65, 84, 79, 82, 46, 67, 79, 77>>,  \* user@MAILINATOR.COM
    <<117, 115, 101, 114, 64, 116, 101, 115, 116, 46, 111, 114, 103>>,  \* user@test.org
    <<117, 115, 101, 114, 64, 99, 111, 109, 112, 97, 110, 121, 46, 110, 101, 116>>,  \* user@company.net
    <<117, 115, 101, 114, 64, 109, 97, 105, 108, 46, 103, 111, 111, 103, 108, 101, 46, 99, 111, 109>>,  \* user@mail.google.com
    <<117, 115, 101, 114, 64, 103, 111, 111, 103, 108, 101, 46, 99, 111>>,  \* user@google.co
    <<85, 115, 101, 114, 46, 78, 97, 109, 101, 43, 116, 97, 103, 64, 69, 120, 97, 109, 112, 108, 101, 46, 67, 79, 77>>,  \* User.Name+tag@Example.COM
    <<97, 46, 98, 46, 99, 64, 100, 46, 101, 102>>,  \* a.b.c@d.ef
    <<97, 46, 46, 98, 64, 99, 46, 100, 101>>,  \* a..b@c.de
    <<97, 64, 98, 46, 99, 49>>,  \* a@b.c1
    <<97, 64, 98, 46, 99, 111, 10>>,  \* a@b.co<U+000A>
    <<10, 97, 64, 98, 46, 99, 111>>,  \* <U+000A>a@b.co
    <<97, 64, 98, 45, 46, 99, 111>>,  \* a@b-.co
    <<97, 64, 45, 98, 46, 99, 111>>,  \* a@-b.co
    <<97, 64, 98, 46, 99, 45, 100>>,  \* a@b.c-d
    <<65, 64, 66, 46, 67, 68>>  \* A@B.CD
  }

\* "example.com", 11 code points
EXAMPLE_COM == <<101, 120, 97, 109, 112, 108, 101, 46, 99, 111, 109>>

\* Inputs at the length bound: 320 and 321 bytes, in one-byte and in
\* multi-byte characters (252 is u-umlaut, 2 bytes; 20013 is a CJK
\* ideograph, 3 bytes; 128512 is an emoji, 4 bytes).
LongEmails ==
  { Repeat(97, MAX_EMAIL_LEN + 1),
    Repeat(97, MAX_EMAIL_LEN),
    Repeat(97, MAX_EMAIL_LEN - 12) \o << CH_AT >> \o EXAMPLE_COM,
    Repeat(97, MAX_EMAIL_LEN - 11) \o << CH_AT >> \o EXAMPLE_COM,
    << 97, CH_AT >> \o Repeat(98, MAX_EMAIL_LEN - 5) \o << CH_DOT, 99, 111 >>,
    << 97, CH_AT >> \o Repeat(98, MAX_EMAIL_LEN - 4) \o << CH_DOT, 99, 111 >>,
    << 97, CH_DOT, CH_DOT, 97, CH_AT >> \o Repeat(98, MAX_EMAIL_LEN - 8) \o << CH_DOT, 99, 111 >>,
    Repeat(252, 160),
    Repeat(252, 161),
    Repeat(252, MAX_EMAIL_LEN),
    << 116, 101, 115, 116, CH_AT >> \o Repeat(252, 156) \o << CH_DOT, 100, 101 >>,
    << 116, 101, 115, 116, CH_AT >> \o Repeat(252, 157) \o << CH_DOT, 100, 101 >>,
    Repeat(20013, 107),
    Repeat(128512, 81),
    << 97, CH_AT, 128512 >> \o Repeat(98, MAX_EMAIL_LEN - 8) \o << CH_DOT, 99, 111 >> }

\* Strings whose lowercase is not the ASCII one: the Kelvin sign (lowercase
\* k), U+0130 (two characters), capital sigma (final or not), U+0100, the
\* Angstrom sign.
CaseFoldingEmails ==
  {
    <<111, 117, 116, 108, 111, 111, 8490, 46, 99, 111, 109>>,  \* outloo<U+212A>.com, Kelvin sign
    <<117, 115, 101, 114, 64, 111, 117, 116, 108, 111, 111, 8490, 46, 99, 111, 109>>,  \* user@outloo<U+212A>.com
    <<103, 111, 111, 103, 108, 101, 46, 99, 111, 109, 304>>,  \* google.com<U+0130>
    <<117, 115, 101, 114, 64, 304, 46, 99, 111, 109>>,  \* user@<U+0130>.com
    <<65, 931>>,  \* A<U+03A3>, capital sigma at the end of a word
    <<931, 65>>,  \* <U+03A3>A
    <<97, 64, 927, 916, 927, 931, 46, 103, 114>>,  \* a@<U+039F><U+0394><U+039F><U+03A3>.gr
    <<97, 931, 46, 931>>,  \* a<U+03A3>.<U+03A3>
    <<256, 64, 98, 46, 99, 111>>,  \* <U+0100>@b.co
    <<97, 64, 8491, 46, 99, 111>>  \* a@<U+212B>.co, Angstrom sign
  }

Inputs ==
  SpecialCharEmails \cup UnicodeEmails \cup EdgeCaseEmails \cup MalformedEmails
    \cup ScoringEmails \cup LongEmails \cup CaseFoldingEmails \cup GeneratedEmails

\* The inputs of the concurrent specification: one per outcome.
ConcInputs ==
  { << >>,
    Repeat(97, MAX_EMAIL_LEN + 1),
    <<116, 101, 115, 116, 50, 46, 99, 111, 109>>,
    <<97, 46, 46, 98, 64, 99, 46, 100, 101>>,
    <<116, 101, 115, 116, 64, 101, 120, 97, 109, 112, 108, 101, 46, 99, 111, 109>>,
    <<117, 115, 101, 114, 64, 71, 79, 79, 71, 76, 69, 46, 67, 79, 77>> }

\* ------------------------------------------------------------------------
\* State
\* ------------------------------------------------------------------------

Threads == 1..NThreads

VARIABLES
  calls,          \* per caller, the frame of its call of parse_and_validate_email
  calls_started,  \* calls entered so far
  regex_builds,   \* executions of Regex::new (lib.rs:132) so far
  table_builds    \* executions of the two vec! of score_domain (lib.rs:61-70) so far

vars == << calls, calls_started, regex_builds, table_builds >>

counters == << calls_started, regex_builds, table_builds >>

\* A caller outside any call: the function keeps nothing between calls.
IdleFrame ==
  [pc |-> "idle", email |-> << >>, email_regex |-> None, parts |-> << >>,
   ret |-> None, checks |-> << >>]

\* The frame on entry: the argument bound, nothing evaluated yet.
\* checks is the history of the checks evaluated by this call, in order.
EnterFrame(email) ==
  [pc |-> "empty", email |-> email, email_regex |-> None, parts |-> << >>,
   ret |-> None, checks |-> << >>]

\* return value, the frame's locals kept as they are at the return
ReturnFrom(f, check, value) ==
  [f EXCEPT !.pc = "done", !.ret = Some(value), !.checks = Append(@, check)]

PassTo(f, check, next) ==
  [f EXCEPT !.pc = next, !.checks = Append(@, check)]

\* Sequential use: one caller, already inside one call with any input.
Init ==
  /\ \E email \in Inputs :
       calls = [t \in Threads |-> IF t = 1 THEN EnterFrame(email) ELSE IdleFrame]
  /\ calls_started = 1
  /\ regex_builds = 0
  /\ table_builds = 0

\* Concurrent use: every caller outside any call.
InitConc ==
  /\ calls = [t \in Threads |-> IdleFrame]
  /\ calls_started = 0
  /\ regex_builds = 0
  /\ table_builds = 0

\* ------------------------------------------------------------------------
\* Steps of parse_and_validate_email
\* ------------------------------------------------------------------------

\* A caller calls parse_and_validate_email(email).
Call(t) ==
  /\ calls[t].pc = "idle"
  /\ calls_started < MaxCalls
  /\ \E email \in ConcInputs : calls' = [calls EXCEPT ![t] = EnterFrame(email)]
  /\ calls_started' = calls_started + 1
  /\ UNCHANGED << regex_builds, table_builds >>

\* Mutant: the emptiness check hands over to the pattern, the length check
\* skipped.
CheckEmpty_SkipsLength(t) ==
  /\ calls[t].pc = "empty"
  /\ calls' = [calls EXCEPT ![t] =
       IF FailsEmptiness(@.email)
       THEN ReturnFrom(@, "empty", Ok(InvalidResult(MSG_EMPTY)))
       ELSE PassTo(@, "empty", "regex")]
  /\ UNCHANGED counters

\* lib.rs:112-120
CheckEmpty(t) ==
  /\ calls[t].pc = "empty"
  /\ calls' = [calls EXCEPT ![t] =
       IF FailsEmptiness(@.email)
       THEN ReturnFrom(@, "empty", Ok(InvalidResult(MSG_EMPTY)))
       ELSE PassTo(@, "empty", "length")]
  /\ UNCHANGED counters

\* lib.rs:122-130
CheckLength(t) ==
  /\ calls[t].pc = "length"
  /\ calls' = [calls EXCEPT ![t] =
       IF FailsLength(@.email)
       THEN ReturnFrom(@, "length", Ok(InvalidResult(MSG_TOO_LONG)))
       ELSE PassTo(@, "length", "regex")]
  /\ UNCHANGED counters

\* lib.rs:132-139
CompileRegex(t) ==
  /\ calls[t].pc = "regex"
  /\ LET compiled == CompileEmailRegex IN
       calls' = [calls EXCEPT ![t] =
         IF compiled.tag = "Err"
         THEN [@ EXCEPT !.pc = "done", !.ret = Some(Err(RegexError(compiled.value)))]
         ELSE [@ EXCEPT !.pc = "match", !.email_regex = Some(compiled.value)]]
  /\ regex_builds' = regex_builds + 1
  /\ UNCHANGED << calls_started, table_builds >>

\* lib.rs:141-149
MatchPattern(t) ==
  /\ calls[t].pc = "match"
  /\ calls' = [calls EXCEPT ![t] =
       IF FailsPattern(@.email_regex[1], @.email)
       THEN ReturnFrom(@, "pattern", Ok(InvalidResult(MSG_FORMAT)))
       ELSE PassTo(@, "pattern", "split")]
  /\ UNCHANGED counters

\* lib.rs:151-160
SplitAtSeparator(t) ==
  /\ calls[t].pc = "split"
  /\ LET parts == SplitParts(calls[t].email) IN
       calls' = [calls EXCEPT ![t] =
         IF FailsSeparator(parts)
         THEN ReturnFrom([@ EXCEPT !.parts = parts], "separator", Ok(InvalidResult(MSG_FORMAT)))
         ELSE PassTo([@ EXCEPT !.parts = parts], "separator", "dots")]
  /\ UNCHANGED counters

\* lib.rs:162-171
DotGuard(t) ==
  /\ calls[t].pc = "dots"
  /\ calls' = [calls EXCEPT ![t] =
       IF FailsDotGuard(@.parts)
       THEN ReturnFrom(@, "dots", Ok(InvalidResult(MSG_FORMAT)))
       ELSE PassTo(@, "dots", "score")]
  /\ UNCHANGED counters

\* lib.rs:173-184, with the call of score_domain (lib.rs:58-81)
ScoreAndAccept(t) ==
  /\ calls[t].pc = "score"
  /\ calls' = [calls EXCEPT ![t] =
       [@ EXCEPT !.pc = "done", !.ret = Some(Ok(Accept(calls[t].parts)))]]
  /\ table_builds' = table_builds + 1
  /\ UNCHANGED << calls_started, regex_builds >>

\* The caller takes the result; the frame and everything in it is dropped.
Return(t) ==
  /\ calls[t].pc = "done"
  /\ calls' = [calls EXCEPT ![t] = IdleFrame]
  /\ UNCHANGED counters

Step(t) ==
  \/ CheckEmpty(t)
  \/ CheckLength(t)
  \/ CompileRegex(t)
  \/ MatchPattern(t)
  \/ SplitAtSeparator(t)
  \/ DotGuard(t)
  \/ ScoreAndAccept(t)

Next == \E t \in Threads : Step(t)

Spec == Init /\ [][Next]_vars

NextConc == \E t \in Threads : Call(t) \/ Step(t) \/ Return(t)

SpecConc == InitConc /\ [][NextConc]_vars

\* ------------------------------------------------------------------------
\* Observations used by the properties
\* ------------------------------------------------------------------------

\* The call of the sequential specification.
call == calls[1]
Done == call.pc = "done"
IsOk == call.ret[1].tag = "Ok"
result == call.ret[1].value
Valid == Done /\ IsOk /\ result.is_valid
Invalid == Done /\ IsOk /\ ~result.is_valid

\* Each step agrees with the function taken as a whole.
StepwiseAgrees == Done => call.ret[1] = parse_and_validate_email(call.email)

\* The five checks in the order of the specification.
CHECK_ORDER == << "empty", "length", "pattern", "separator", "dots" >>

IsPrefix(a, b) == Len(a) <= Len(b) /\ a = SubSeq(b, 1, Len(a))

\* The reference grammar, stated on the characters and their neighbours
\* (not through the pattern, nor through split).
IsLetter(c) == (c >= 97 /\ c <= 122) \/ (c >= 65 /\ c <= 90)
IsDigit(c)  == c >= 48 /\ c <= 57
IsAlnum(c)  == IsLetter(c) \/ IsDigit(c)
IsLocalChar(c) == IsAlnum(c) \/ c \in {46, 95, 37, 43, 45}

\* letters, digits, '.', '_', '%', '+', '-'; neither starts nor ends with '.'
RefLocal(l) ==
  /\ Len(l) >= 1
  /\ \A i \in 1..Len(l) : IsLocalChar(l[i])
  /\ l[1] # 46
  /\ l[Len(l)] # 46

\* one or more labels of letters, digits and interior hyphens, then a final
\* label of at least 2 letters, all separated by single dots
RefDomain(d) ==
  \E p \in 2..Len(d) :
    /\ d[p] = 46
    /\ Len(d) - p >= 2
    /\ \A i \in (p + 1)..Len(d) : IsLetter(d[i])
    /\ \A i \in 1..(p - 1) : IsAlnum(d[i]) \/ d[i] = 45 \/ d[i] = 46
    /\ IsAlnum(d[1])
    /\ IsAlnum(d[p - 1])
    /\ \A i \in 2..(p - 1) : d[i] = 46 => IsAlnum(d[i - 1]) /\ IsAlnum(d[i + 1])

CountOf(s, ch) == Cardinality({i \in 1..Len(s) : s[i] = ch})

\* local part, exactly one '@', domain
RefAddress(s) ==
  \E a \in 1..Len(s) :
    /\ s[a] = 64
    /\ CountOf(s, 64) = 1
    /\ RefLocal(SubSeq(s, 1, a - 1))
    /\ RefDomain(SubSeq(s, a + 1, Len(s)))

\* two adjacent '.' before the first '@'
RefDotDotInLocal(s) ==
  \E i \in 1..(Len(s) - 1) :
    /\ s[i] = 46 /\ s[i + 1] = 46
    /\ \A j \in 1..i : s[j] # 64

\* The reference language: length counted in characters.
RefValid(s) ==
  /\ Len(s) >= 1
  /\ Len(s) <= MAX_EMAIL_LEN
  /\ RefAddress(s)
  /\ ~RefDotDotInLocal(s)

\* a space, a control character, a non-ASCII character
HasForbiddenChar(s) == \E i \in 1..Len(s) : s[i] <= 32 \/ s[i] >= 127

\* a character before the first '@' that a local part may not hold
HasBadLocalChar(s) ==
  \E i \in 1..Len(s) : ~IsLocalChar(s[i]) /\ \A j \in 1..i : s[j] # 64

\* ------------------------------------------------------------------------
\* Properties
\* ------------------------------------------------------------------------

\* C1: a returned result is never partially populated: is_valid holds iff
\* local_part, domain and domain_score are all present and error_message is
\* absent, and is_valid fails iff error_message is present and the three
\* others are all absent.
C1_MutualExclusivity ==
  Done /\ IsOk =>
    /\ result.is_valid <=>
         /\ result.local_part # None
         /\ result.domain # None
         /\ result.domain_score # None
         /\ result.error_message = None
    /\ ~result.is_valid <=>
         /\ result.error_message # None
         /\ result.local_part = None
         /\ result.domain = None
         /\ result.domain_score = None

\* A rejection by the last check, after the local part has been extracted.
C1_Witness ==
  /\ Invalid
  /\ call.parts # << >>
  /\ result.local_part = None
  /\ result.error_message = Some(MSG_FORMAT)

\* C2: every call returns on the Ok channel, whatever the input; an input
\* that is empty, oversized or holds a space, a control or a non-ASCII
\* character is reported as is_valid = false, never as an EmailParseError.
C2_NeverStructuralError ==
  Done =>
    /\ call.ret # None
    /\ IsOk
    /\ (call.email = << >> \/ StrLen(call.email) > MAX_EMAIL_LEN
          \/ HasForbiddenChar(call.email)) => ~result.is_valid

\* A call that compiled the pattern and returned Ok on a non-ASCII input.
C2_Witness ==
  /\ Done
  /\ IsOk
  /\ call.email_regex # None
  /\ \E i \in 1..Len(call.email) : call.email[i] > 127

\* The checks a call must have evaluated when it returns: those up to the
\* first one the input fails, all five when it fails none.
ExpectedChecks(email) ==
  IF Len(email) = 0 THEN SubSeq(CHECK_ORDER, 1, 1)
  ELSE IF StrLen(email) > MAX_EMAIL_LEN THEN SubSeq(CHECK_ORDER, 1, 2)
  ELSE IF ~RefAddress(email) THEN SubSeq(CHECK_ORDER, 1, 3)
  ELSE IF CountOf(email, 64) # 1 THEN SubSeq(CHECK_ORDER, 1, 4)
  ELSE CHECK_ORDER

\* C3: the checks are evaluated in the order emptiness, length, pattern,
\* separator, consecutive dots, and none after the first that fails; an
\* empty input gets "Email cannot be empty", a non-empty input over the
\* length bound gets the length message even when it also fails the
\* pattern, every other invalid input gets "Invalid email format".
\* (The length is the one the code takes, str::len().)
C3_FirstFailingCheck ==
  /\ IsPrefix(call.checks, CHECK_ORDER)
  /\ Done /\ IsOk =>
       /\ call.checks = ExpectedChecks(call.email)
       /\ Len(call.email) = 0 =>
            ~result.is_valid /\ result.error_message = Some(MSG_EMPTY)
       /\ Len(call.email) > 0 /\ StrLen(call.email) > MAX_EMAIL_LEN =>
            ~result.is_valid /\ result.error_message = Some(MSG_TOO_LONG)
       /\ Len(call.email) > 0 /\ StrLen(call.email) <= MAX_EMAIL_LEN /\ ~result.is_valid =>
            result.error_message = Some(MSG_FORMAT)

\* An input over the length bound that also fails the pattern, rejected
\* with the length message after two checks.
C3_Witness ==
  /\ Invalid
  /\ ~RefAddress(call.email)
  /\ call.checks = << "empty", "length" >>
  /\ result.error_message = Some(MSG_TOO_LONG)

EqIgnoreAsciiCase(a, b) ==
  /\ Len(a) = Len(b)
  /\ \A i \in 1..Len(a) :
       (IF a[i] >= 65 /\ a[i] <= 90 THEN a[i] + 32 ELSE a[i])
         = (IF b[i] >= 65 /\ b[i] <= 90 THEN b[i] + 32 ELSE b[i])

\* The tier of a domain by the table of the specification.
RefTier(d) ==
  IF \E x \in {GOOGLE_COM, OUTLOOK_COM, YAHOO_COM} : EqIgnoreAsciiCase(d, x) THEN 80
  ELSE IF \E x \in {MAILINATOR_COM, TEMPMAIL_COM} : EqIgnoreAsciiCase(d, x) THEN 20
  ELSE 50

\* "MAILINATOR.COM"
MAILINATOR_COM_UPPER == <<77, 65, 73, 76, 73, 78, 65, 84, 79, 82, 46, 67, 79, 77>>
\* "GOOGLE.COM"
GOOGLE_COM_UPPER == <<71, 79, 79, 71, 76, 69, 46, 67, 79, 77>>
\* "test@example.com"
TEST_AT_EXAMPLE_COM ==
  <<116, 101, 115, 116, 64, 101, 120, 97, 109, 112, 108, 101, 46, 99, 111, 109>>
\* "test"
TEST == <<116, 101, 115, 116>>

\* C4: the score of a valid result is the tier of its domain, compared
\* without regard to case: 80 for google.com, outlook.com, yahoo.com, 20
\* for mailinator.com, tempmail.com, 50 otherwise; score_domain gives one
\* of 20, 50, 80 on any string; test@example.com scores 50.
C4_ScoreByTier ==
  /\ score_domain(call.email) \in {20, 50, 80}
  /\ Valid =>
       /\ result.domain_score = Some(RefTier(result.domain[1]))
       /\ result.domain = Some(MAILINATOR_COM_UPPER) => result.domain_score = Some(20)
       /\ result.domain = Some(GOOGLE_COM_UPPER) => result.domain_score = Some(80)
       /\ call.email = TEST_AT_EXAMPLE_COM => result.domain_score = Some(50)

\* user@MAILINATOR.COM accepted and scored 20.
C4_Witness ==
  /\ Valid
  /\ result.domain = Some(MAILINATOR_COM_UPPER)
  /\ result.domain_score = Some(20)

\* C5: an input is accepted iff it is in the reference language: non-empty,
\* at most 320 long, a local part of letters, digits, '.', '_', '%', '+',
\* '-' that neither starts nor ends with '.', exactly one '@', dot-separated
\* domain labels that start and end alphanumeric, a final label of at least
\* 2 letters, no two adjacent '.' in the local part.  So an input with a
\* space, a control or non-ASCII character or a bad local-part character
\* is invalid.
C5_AcceptsReferenceLanguage ==
  Done =>
    /\ IsOk
    /\ result.is_valid <=> RefValid(call.email)
    /\ HasForbiddenChar(call.email) \/ HasBadLocalChar(call.email) => ~result.is_valid

\* A well-formed address of exactly 320 characters, accepted.
C5_Witness ==
  /\ Valid
  /\ Len(call.email) = MAX_EMAIL_LEN

\* C6 (as claimed): the length bound counts characters: a non-empty input
\* gets the length message iff it has more than 320 characters.
C6_LengthInCharacters ==
  Done /\ IsOk /\ Len(call.email) > 0 =>
    (result.error_message = Some(MSG_TOO_LONG) <=> Len(call.email) > MAX_EMAIL_LEN)

HasAt(s) == \E i \in 1..Len(s) : s[i] = 64

\* C7: the parts of a valid result are taken verbatim: local_part, '@' and
\* domain put together give the input back, neither part holds '@', and
\* the case of the domain is kept.
C7_PartsVerbatim ==
  Valid =>
    /\ result.local_part[1] \o << 64 >> \o result.domain[1] = call.email
    /\ ~HasAt(result.local_part[1])
    /\ ~HasAt(result.domain[1])

\* An accepted address whose domain holds capitals, returned as written.
C7_Witness ==
  /\ Valid
  /\ \E i \in 1..Len(result.domain[1]) :
       result.domain[1][i] >= 65 /\ result.domain[1][i] <= 90
  /\ result.domain[1] # ToLowercase(result.domain[1])

\* C8: test@example.com is valid with local_part "test",
\* domain "example.com", no error message and domain_score 80.
C8_CanonicalScores80 ==
  Done /\ call.email = TEST_AT_EXAMPLE_COM =>
    /\ IsOk
    /\ result = ValidResult(TEST, EXAMPLE_COM, 80)

\* "te..st@domain.com"
TE_DOT_DOT_ST ==
  <<116, 101, 46, 46, 115, 116, 64, 100, 111, 109, 97, 105, 110, 46, 99, 111, 109>>

\* C9: the pattern lets consecutive dots in the local part through: an
\* input in the grammar with two adjacent '.' in its local part (such as
\* te..st@domain.com) passes the first four checks and is rejected by the
\* guard alone; and no valid result has a local_part with two adjacent '.'.
C9_DotGuardDecides ==
  /\ Valid => ~ContainsDotDot(result.local_part[1])
  /\ Done /\ IsOk /\ StrLen(call.email) <= MAX_EMAIL_LEN
       /\ RefAddress(call.email) /\ RefDotDotInLocal(call.email) =>
         /\ call.checks = CHECK_ORDER
         /\ ~result.is_valid
         /\ result.error_message = Some(MSG_FORMAT)
  /\ Done /\ call.email = TE_DOT_DOT_ST => Invalid /\ call.checks = CHECK_ORDER

\* te..st@domain.com rejected after all five checks were evaluated.
C9_Witness ==
  /\ Invalid
  /\ call.email = TE_DOT_DOT_ST
  /\ Len(call.checks) = 5
  /\ call.checks[5] = "dots"

\* C10: the pattern and the domain table are built once, before
\* first use, and never again.
C10_BuiltOnce == regex_builds <= 1 /\ table_builds <= 1

=============================================================================
